---------------------------- MODULE Spec2Model ----------------------------
(***************************************************************************)
(* A model of mqttui's interactive topic view:                             *)
(*   src/src/interactive/topic_tree_entry.rs  TopicTreeEntry, the TreeItem *)
(*       conversion, the examples() fixture and get_visible;               *)
(*   src/src/interactive/ui.rs                draw, draw_main,             *)
(*       draw_details, draw_overview.                                      *)
(*                                                                         *)
(* A topic "foo/bar" is the sequence of its segments; a segment is a       *)
(* natural number and the order of the numbers is the lexicographic order  *)
(* of the segment strings.  Option<T> is a sequence of length 0 (None) or  *)
(* 1 (Some).  A string is the sequence of its code points, a payload the   *)
(* sequence of its bytes.                                                  *)
(***************************************************************************)
EXTENDS Naturals, Sequences, FiniteSets

VARIABLES
    history,              \* the shared store: topic -> sequence of payloads
    lock,                 \* who holds the history mutex: "free", "ui", "ingest"
    poisoned,             \* the mutex is poisoned (a holder panicked)
    ingest_pc,            \* the ingestion thread: "idle", "holding"
    ingested,             \* messages pushed so far (bounds the run)
    ui_pc,                \* the render thread's position in draw / draw_main
    opened_topics,        \* app.opened_topics
    selected_topic,       \* app.selected_topic : Option<topic>
    topic_overview_state, \* app.topic_overview_state : [opened, selected]
    tree_items,           \* draw_main's local forest (also a pure input)
    frame,                \* what the current redraw has put on screen
    result,               \* what the last draw() returned: "none", "ok", "err"
    visible,              \* result of get_visible
    bytes,                \* input of the payload formatter
    payload_text          \* output of the payload formatter

vars == <<history, lock, poisoned, ingest_pc, ingested, ui_pc, opened_topics,
          selected_topic, topic_overview_state, tree_items, frame, result,
          visible, bytes, payload_text>>

-----------------------------------------------------------------------------
(* Bounds *)

MaxKeys == 2          \* topics in a history map given to the tree builder
MaxOpen == 2          \* members of an open-set given to get_visible
MaxMsgs == 2          \* messages the ingestion thread pushes in a run
MaxPayloadLen == 3    \* bytes of a payload given to the formatter

Segs == {1, 2}        \* segments the generated topics are made of
AllTopics == UNION {[1..n -> Segs] : n \in 1..3}

-----------------------------------------------------------------------------
(* Option and sequence helpers *)

None == <<>>
Some(x) == <<x>>
IsSome(o) == Len(o) = 1

Range(s) == {s[i] : i \in 1..Len(s)}

IsPrefix(p, t) == Len(p) <= Len(t) /\ SubSeq(t, 1, Len(p)) = p
IsStrictPrefix(p, t) == Len(p) < Len(t) /\ SubSeq(t, 1, Len(p)) = p
Front(t) == SubSeq(t, 1, Len(t) - 1)

RECURSIVE SortedSeq(_)
SortedSeq(S) ==
    IF S = {} THEN <<>>
    ELSE LET m == CHOOSE x \in S : \A y \in S : x <= y
         IN  <<m>> \o SortedSeq(S \ {m})

RECURSIVE SumSeq(_)
SumSeq(s) == IF s = <<>> THEN 0 ELSE Head(s) + SumSeq(Tail(s))

-----------------------------------------------------------------------------
(* TopicTreeEntry and the forests the model works on *)

\* struct TopicTreeEntry
TopicTreeEntry(topic, leaf, messages, last_payload, topics_below, messages_below, entries_below) ==
    [topic |-> topic, leaf |-> leaf, messages |-> messages,
     last_payload |-> last_payload, topics_below |-> topics_below,
     messages_below |-> messages_below, entries_below |-> entries_below]

\* TopicTreeEntry::examples(): bar is segment 1, foo 2, test 3; the payloads
\* "D", "B", "C" are the bytes 68, 66, 67.
examples ==
    << TopicTreeEntry(<<2>>, 2, 0, None, 2, 2,
         << TopicTreeEntry(<<2, 1>>, 1, 1, Some(<<68>>), 0, 0, <<>>),
            TopicTreeEntry(<<2, 3>>, 3, 1, Some(<<66>>), 0, 0, <<>>) >>),
       TopicTreeEntry(<<3>>, 3, 2, Some(<<67>>), 0, 0, <<>>) >>

\* mqtt_history::history_to_tmlp: per topic, the number of messages and the
\* most recent payload.
history_to_tmlp(h) ==
    [t \in DOMAIN h |-> [messages |-> Len(h[t]),
                         last_payload |-> IF h[t] = <<>> THEN None
                                          ELSE Some(h[t][Len(h[t])])]]

\* topics_below counting the direct children only.
topics_below_direct(kids) == Len(kids)

\* topics_below of an entry from its children: each child and what is below it.
topics_below_of(kids) ==
    SumSeq([i \in 1..Len(kids) |-> 1 + kids[i].topics_below])

\* messages_below of an entry from its children.
messages_below_of(kids) ==
    SumSeq([i \in 1..Len(kids) |-> kids[i].messages + kids[i].messages_below])

\* The tree builder below one prefix: one child per distinct next segment of
\* the keys that extend the prefix, in segment order.
RECURSIVE BuildBelow(_, _)
BuildBelow(prefix, tmlp) ==
    LET below == {k \in DOMAIN tmlp : IsStrictPrefix(prefix, k)}
        segs  == SortedSeq({k[Len(prefix) + 1] : k \in below})
        child(s) ==
            LET topic == Append(prefix, s)
                kids  == BuildBelow(topic, tmlp)
                own   == topic \in DOMAIN tmlp
            IN  TopicTreeEntry(
                    topic, s,
                    IF own THEN tmlp[topic].messages ELSE 0,
                    IF own THEN tmlp[topic].last_payload ELSE None,
                    topics_below_of(kids), messages_below_of(kids), kids)
    IN  [i \in 1..Len(segs) |-> child(segs[i])]

\* topic_view::get_tmlp_as_tree
get_tmlp_as_tree(tmlp) == BuildBelow(<<>>, tmlp)

\* Every entry of a forest with its index path (the position of each
\* ancestor, then its own, in the entries_below it sits in) and the topics
\* of its proper ancestors.
RECURSIVE Located(_, _, _)
Located(entries, id, anc) ==
    UNION {
        {[id |-> Append(id, i), anc |-> anc, entry |-> entries[i]]}
        \cup Located(entries[i].entries_below, Append(id, i),
                     anc \cup {entries[i].topic})
        : i \in 1..Len(entries)}

Nodes(forest) == Located(forest, <<>>, {})

-----------------------------------------------------------------------------
(* get_visible *)

\* A visibility walk that descends into every entry, opened or not.
RECURSIVE get_visible_all(_, _)
get_visible_all(opened, entries) ==
    IF entries = <<>> THEN <<>>
    ELSE <<Head(entries)>>
         \o get_visible_all(opened, Head(entries).entries_below)
         \o get_visible_all(opened, Tail(entries))

\* A visibility walk that pushes an entry after its children.
RECURSIVE get_visible_post(_, _)
get_visible_post(opened, entries) ==
    IF entries = <<>> THEN <<>>
    ELSE (IF Head(entries).topic \in opened
          THEN get_visible_post(opened, Head(entries).entries_below)
          ELSE <<>>)
         \o <<Head(entries)>>
         \o get_visible_post(opened, Tail(entries))

\* pub fn get_visible(opened, entries): for entry in entries { push entry;
\* if opened.contains(&entry.topic) { append get_visible(opened, below) } }
RECURSIVE get_visible(_, _)
get_visible(opened, entries) ==
    IF entries = <<>> THEN <<>>
    ELSE <<Head(entries)>>
         \o (IF Head(entries).topic \in opened
             THEN get_visible(opened, Head(entries).entries_below)
             ELSE <<>>)
         \o get_visible(opened, Tail(entries))

-----------------------------------------------------------------------------
(* Values the variables of one specification hold while another runs *)

NoState == [opened |-> {}, selected |-> <<>>]
NoFrame == [drawn |-> FALSE]

-----------------------------------------------------------------------------
(* SpecVisible: get_visible applied to bounded forests and open-sets *)

KeySets == {K \in SUBSET AllTopics : Cardinality(K) <= MaxKeys}

\* The forests get_visible is applied to: the fixture, and the builder's
\* forest for every bounded key set (one message "1" on each key).
Forests == {examples} \cup
           {get_tmlp_as_tree([t \in K |-> [messages |-> 1,
                                           last_payload |-> Some(<<49>>)]])
            : K \in KeySets}

TopicsOf(forest) == {n.entry.topic : n \in Nodes(forest)}

\* Open-sets: topics of the forest and one topic that is in no forest.
StaleTopic == <<1, 1, 1, 1>>
OpenSets(forest) ==
    {O \in SUBSET (TopicsOf(forest) \cup {StaleTopic}) : Cardinality(O) <= MaxOpen}

InitVisible ==
    /\ tree_items \in Forests
    /\ opened_topics \in OpenSets(tree_items)
    /\ visible = <<>>
    /\ ui_pc = "call"
    /\ history = <<>> /\ lock = "free" /\ poisoned = FALSE
    /\ ingest_pc = "idle" /\ ingested = 0
    /\ selected_topic = None /\ topic_overview_state = NoState
    /\ frame = NoFrame /\ result = "none"
    /\ bytes = <<>> /\ payload_text = <<>>

CallGetVisible ==
    /\ ui_pc = "call"
    /\ visible' = get_visible(opened_topics, tree_items)
    /\ ui_pc' = "returned"
    /\ UNCHANGED <<history, lock, poisoned, ingest_pc, ingested, opened_topics,
                   selected_topic, topic_overview_state, tree_items, frame,
                   result, bytes, payload_text>>

NextVisible == CallGetVisible

SpecVisible == InitVisible /\ [][NextVisible]_vars

\* The place of a visible entry in the forest.
LocOf(e) == CHOOSE n \in Nodes(tree_items) : n.entry = e

\* C1: get_visible returns an entry if and only if the topic of every proper
\* ancestor of it is in the open-set; each returned entry is returned once;
\* with the empty open-set the result is the root-level entries in order.
VisibleIffAncestorsOpen ==
    ui_pc = "returned" =>
        /\ \A n \in Nodes(tree_items) :
               (n.entry \in Range(visible)) <=> (n.anc \subseteq opened_topics)
        /\ \A i, j \in 1..Len(visible) : visible[i] = visible[j] => i = j
        /\ opened_topics = {} => visible = tree_items

\* C1 witness: an opened root whose child is returned while that child's own
\* child, the child not being opened, is left out.
VisibleIffAncestorsOpenWitness ==
    /\ ui_pc = "returned"
    /\ \E n, m \in Nodes(tree_items) :
           /\ Len(n.id) = 2 /\ n.entry \in Range(visible)
           /\ Len(m.id) = 3 /\ Front(m.id) = n.id
           /\ m.entry \notin Range(visible)

\* C2: the returned sequence is in pre-order: an entry's parent comes before
\* it, the returned descendants of an entry follow it without a gap, and
\* siblings keep their entries_below order.
VisiblePreOrder ==
    ui_pc = "returned" =>
        LET id(i) == LocOf(visible[i]).id
            N == 1..Len(visible)
        IN  /\ \A i \in N : Len(id(i)) > 1 =>
                   \E j \in 1..(i - 1) : id(j) = Front(id(i))
            /\ \A i, j, k \in N :
                   (i < j /\ j < k /\ IsPrefix(id(i), id(k)))
                       => IsPrefix(id(i), id(j))
            /\ \A i, j \in N :
                   (i < j /\ Front(id(i)) = Front(id(j)))
                       => id(i)[Len(id(i))] < id(j)[Len(id(j))]

\* C2 witness: a returned entry, a child of it right after, and a later
\* sibling of the entry after the child.
VisiblePreOrderWitness ==
    /\ ui_pc = "returned"
    /\ \E i, j, k \in 1..Len(visible) :
           /\ i < j /\ j < k
           /\ Front(LocOf(visible[j]).id) = LocOf(visible[i]).id
           /\ Front(LocOf(visible[k]).id) = Front(LocOf(visible[i]).id)

-----------------------------------------------------------------------------
(* The payload formatter *)

\* The bytes payloads are made of: "1", "[", "]", "a" and 0xFF, which no
\* UTF-8 text contains.
ByteAlphabet == {49, 91, 93, 97, 255}

Utf8Valid(b) == \A i \in 1..Len(b) : b[i] < 128

\* json::parse on a text of the alphabet: a number is a run of digits, an
\* array is "[" "]" around nothing or around one value.
RECURSIVE json_parse(_)
json_parse(s) ==
    IF s # <<>> /\ \A i \in 1..Len(s) : s[i] = 49
    THEN Some([kind |-> "num", digits |-> s])
    ELSE IF Len(s) >= 2 /\ s[1] = 91 /\ s[Len(s)] = 93
    THEN LET inner == SubSeq(s, 2, Len(s) - 1)
         IN  IF inner = <<>> THEN Some([kind |-> "arr", items |-> <<>>])
             ELSE LET e == json_parse(inner)
                  IN  IF IsSome(e)
                      THEN Some([kind |-> "arr", items |-> <<e[1]>>])
                      ELSE None
    ELSE None

\* format::payload_as_json: the payload as UTF-8 text, parsed as JSON.
payload_as_json(b) == IF Utf8Valid(b) THEN json_parse(b) ELSE None

Spaces(n) == [i \in 1..n |-> 32]

\* json::stringify_pretty(value, 2) at a nesting depth.
RECURSIVE pretty(_, _)
pretty(v, depth) ==
    IF v.kind = "num" THEN v.digits
    ELSE IF v.items = <<>> THEN <<91, 93>>
    ELSE <<91, 10>> \o Spaces(2 * (depth + 1)) \o pretty(v.items[1], depth + 1)
         \o <<10>> \o Spaces(2 * depth) \o <<93>>

stringify_pretty(v) == pretty(v, 0)

\* format::payload_as_utf8: each byte that is not valid UTF-8 becomes the
\* placeholder U+FFFD.
payload_as_utf8(b) == [i \in 1..Len(b) |-> IF b[i] < 128 THEN b[i] ELSE 65533]

\* The payload text with no fallback when the payload is not JSON.
draw_details_payload_no_fallback(b) ==
    LET payload_json == payload_as_json(b)
    IN  IF IsSome(payload_json) THEN stringify_pretty(payload_json[1])
        ELSE <<>>

\* draw_details: payload_json.map_or(payload_as_utf8(..), stringify_pretty)
draw_details_payload(b) ==
    LET payload_json == payload_as_json(b)
    IN  IF IsSome(payload_json) THEN stringify_pretty(payload_json[1])
        ELSE payload_as_utf8(b)

-----------------------------------------------------------------------------
(* SpecFormat: the payload text of draw_details for bounded payloads *)

Payloads == UNION {[1..n -> ByteAlphabet] : n \in 0..MaxPayloadLen}

InitFormat ==
    /\ bytes \in Payloads
    /\ payload_text = <<>>
    /\ ui_pc = "call"
    /\ history = <<>> /\ lock = "free" /\ poisoned = FALSE
    /\ ingest_pc = "idle" /\ ingested = 0
    /\ opened_topics = {} /\ selected_topic = None
    /\ topic_overview_state = NoState /\ tree_items = <<>>
    /\ frame = NoFrame /\ result = "none" /\ visible = <<>>

FormatPayload ==
    /\ ui_pc = "call"
    /\ payload_text' = draw_details_payload(bytes)
    /\ ui_pc' = "returned"
    /\ UNCHANGED <<history, lock, poisoned, ingest_pc, ingested, opened_topics,
                   selected_topic, topic_overview_state, tree_items, frame,
                   result, visible, bytes>>

NextFormat == FormatPayload

SpecFormat == InitFormat /\ [][NextFormat]_vars

NoWhitespace(t) == SelectSeq(t, LAMBDA c : c # 10 /\ c # 32)

-----------------------------------------------------------------------------
(* The TreeItem conversion *)

Summary(entry) == [kind |-> "summary", topics |-> entry.topics_below,
                   messages |-> entry.messages_below]

\* "= " and the payload as text
Preview(payload) == [kind |-> "payload",
                     text |-> <<61, 32>> \o payload_as_utf8(payload)]

\* A meta that shows the summary for every entry with children.
meta_by_children(entry) ==
    IF entry.entries_below # <<>> \/ ~IsSome(entry.last_payload)
    THEN Summary(entry)
    ELSE Preview(entry.last_payload[1])

\* entry.last_payload.as_ref().map_or_else(|| "(N topics, M messages)",
\*                                         |payload| "= <payload as text>")
meta(entry) ==
    IF IsSome(entry.last_payload) THEN Preview(entry.last_payload[1])
    ELSE Summary(entry)

\* impl From<&TopicTreeEntry> for TreeItem
RECURSIVE TreeItemFrom(_)
TreeItemFrom(entry) ==
    [leaf |-> entry.leaf,
     meta |-> meta(entry),
     children |-> [i \in 1..Len(entry.entries_below) |->
                       TreeItemFrom(entry.entries_below[i])]]

\* topic_view::tree_items_from_tmlp_tree
tree_items_from_tmlp_tree(entries) ==
    [i \in 1..Len(entries) |-> TreeItemFrom(entries[i])]

\* The TreeItem at an index path.
RECURSIVE ItemAt(_, _)
ItemAt(items, id) ==
    IF Len(id) = 1 THEN items[id[1]]
    ELSE ItemAt(items[id[1]].children, Tail(id))

-----------------------------------------------------------------------------
(* SpecTree: the tree builder and the TreeItem conversion for bounded      *)
(* history maps                                                            *)

\* What one topic of a history map holds: one message, or two.
TopicHistories == { << <<49>> >>, << <<97>>, <<255>> >>, << <<255>>, <<>> >> }

Histories == UNION {[K -> TopicHistories] : K \in KeySets}

InitTree ==
    /\ history \in Histories
    /\ tree_items = <<>>
    /\ frame = NoFrame
    /\ ui_pc = "call"
    /\ lock = "free" /\ poisoned = FALSE
    /\ ingest_pc = "idle" /\ ingested = 0
    /\ opened_topics = {} /\ selected_topic = None
    /\ topic_overview_state = NoState
    /\ result = "none" /\ visible = <<>>
    /\ bytes = <<>> /\ payload_text = <<>>

\* draw_main: history_to_tmlp, get_tmlp_as_tree
BuildForest ==
    /\ ui_pc = "call"
    /\ tree_items' = get_tmlp_as_tree(history_to_tmlp(history))
    /\ ui_pc' = "built"
    /\ UNCHANGED <<history, lock, poisoned, ingest_pc, ingested, opened_topics,
                   selected_topic, topic_overview_state, frame, result,
                   visible, bytes, payload_text>>

\* draw_overview: tree_items_from_tmlp_tree
ConvertForest ==
    /\ ui_pc = "built"
    /\ frame' = [drawn |-> TRUE, items |-> tree_items_from_tmlp_tree(tree_items)]
    /\ ui_pc' = "converted"
    /\ UNCHANGED <<history, lock, poisoned, ingest_pc, ingested, opened_topics,
                   selected_topic, topic_overview_state, tree_items, result,
                   visible, bytes, payload_text>>

NextTree == BuildForest \/ ConvertForest

SpecTree == InitTree /\ [][NextTree]_vars

RECURSIVE SumMessages(_)
SumMessages(S) ==
    IF S = {} THEN 0
    ELSE LET n == CHOOSE x \in S : TRUE
         IN  n.entry.messages + SumMessages(S \ {n})

ProperDescendants(forest, n) ==
    {m \in Nodes(forest) : IsStrictPrefix(n.id, m.id)}

CountsLaw(forest) ==
    \A n \in Nodes(forest) :
        /\ n.entry.topics_below = Cardinality(ProperDescendants(forest, n))
        /\ n.entry.messages_below = SumMessages(ProperDescendants(forest, n))

\* C7: in every built forest, and in the examples() fixture, topics_below of
\* an entry is the number of its proper descendants and messages_below the
\* sum of their direct message counts, the entry itself not counted.
AggregatesCountProperDescendants ==
    /\ CountsLaw(examples)
    /\ ui_pc \in {"built", "converted"} => CountsLaw(tree_items)

\* C7 witness: a built entry with direct messages of its own, a child and a
\* grandchild, whose counts are those of the two descendants.
AggregatesCountProperDescendantsWitness ==
    /\ ui_pc = "built"
    /\ \E n \in Nodes(tree_items) :
           /\ n.entry.messages >= 1
           /\ n.entry.topics_below = 2
           /\ n.entry.messages_below >= 2
           /\ Len(n.entry.entries_below) = 1

\* C8: the meta of every converted entry is the summary of topics_below and
\* messages_below when the entry has no direct message, and "= " with the
\* text of the latest payload of its topic when it has one, children or not.
MetaSummaryOrPreview ==
    ui_pc = "converted" =>
        \A n \in Nodes(tree_items) :
            LET m == ItemAt(frame.items, n.id).meta
                e == n.entry
            IN  /\ e.messages = 0 =>
                       /\ m.kind = "summary"
                       /\ m.topics = e.topics_below
                       /\ m.messages = e.messages_below
                /\ e.messages >= 1 =>
                       /\ m.kind = "payload"
                       /\ m.text = <<61, 32>> \o payload_as_utf8(
                              history[e.topic][Len(history[e.topic])])

\* C8 witness: an entry with direct messages and children shows its payload,
\* and its parent, a branch without messages, shows the summary.
MetaSummaryOrPreviewWitness ==
    /\ ui_pc = "converted"
    /\ \E n, b \in Nodes(tree_items) :
           /\ n.entry.messages >= 1 /\ n.entry.entries_below # <<>>
           /\ ItemAt(frame.items, n.id).meta.kind = "payload"
           /\ b.entry.messages = 0
           /\ ItemAt(frame.items, b.id).meta.kind = "summary"

-----------------------------------------------------------------------------
(* Identifiers of the tree widget *)

\* topic_view::get_identifier_of_topic(tree_items, topic): the index path of
\* the entry the topic names, found segment by segment; None when the forest
\* has no such entry.
RECURSIVE find_identifier(_, _)
find_identifier(entries, path) ==
    LET hits == {i \in 1..Len(entries) : entries[i].leaf = Head(path)}
    IN  IF hits = {} THEN None
        ELSE LET i == CHOOSE x \in hits : \A y \in hits : x <= y
             IN  IF Len(path) = 1 THEN Some(<<i>>)
                 ELSE LET rest == find_identifier(entries[i].entries_below,
                                                  Tail(path))
                      IN  IF IsSome(rest) THEN Some(<<i>> \o rest[1]) ELSE None

get_identifier_of_topic(entries, topic) ==
    IF topic = <<>> THEN None ELSE find_identifier(entries, topic)

\* Option::unwrap_or_default on an identifier: the empty index path.
unwrap_or_default(o) == IF IsSome(o) THEN o[1] ELSE <<>>

\* The topics of the entries a set of identifiers names.
TopicsNamed(forest, ids) == {n.entry.topic : n \in {x \in Nodes(forest) : x.id \in ids}}

ProperPrefixes(t) == {SubSeq(t, 1, n) : n \in 1..(Len(t) - 1)}

-----------------------------------------------------------------------------
(* Spec: the render thread redrawing while the ingestion thread pushes     *)
(* messages into the shared history                                        *)

\* Topics messages arrive on and the navigation state refers to.
MainTopics == {<<1>>, <<1, 2>>, <<1, 2, 1>>}
MainPayloads == {<<>>, <<49>>}

EmptyFrame == [header |-> FALSE, details |-> None, overview |-> None,
               highlight |-> None]

Init ==
    /\ history = <<>>
    /\ lock = "free" /\ poisoned = FALSE
    /\ ingest_pc = "idle" /\ ingested = 0
    /\ ui_pc = "idle"
    /\ opened_topics = {} /\ selected_topic = None
    /\ topic_overview_state = NoState
    /\ tree_items = <<>>
    /\ frame = EmptyFrame
    /\ result = "none"
    /\ visible = <<>> /\ bytes = <<>> /\ payload_text = <<>>

pure == <<visible, bytes, payload_text>>
ingest == <<ingest_pc, ingested>>
nav == <<opened_topics, selected_topic>>

(* The ingestion thread: lock, push one message, unlock; or panic with the  *)
(* lock held, which poisons the mutex.                                      *)

IngestLock ==
    /\ ingest_pc = "idle" /\ lock = "free" /\ ~poisoned
    /\ ingested < MaxMsgs
    /\ lock' = "ingest" /\ ingest_pc' = "holding"
    /\ UNCHANGED <<history, poisoned, ingested, ui_pc, nav,
                   topic_overview_state, tree_items, frame, result, pure>>

IngestPush ==
    /\ ingest_pc = "holding"
    /\ \E t \in MainTopics, p \in MainPayloads :
           history' = [k \in DOMAIN history \cup {t} |->
                          IF k = t
                          THEN (IF t \in DOMAIN history THEN history[t]
                                ELSE <<>>) \o <<p>>
                          ELSE history[k]]
    /\ lock' = "free" /\ ingest_pc' = "idle" /\ ingested' = ingested + 1
    /\ UNCHANGED <<poisoned, ui_pc, nav, topic_overview_state, tree_items,
                   frame, result, pure>>

IngestPanic ==
    /\ ingest_pc = "holding"
    /\ poisoned' = TRUE /\ lock' = "free" /\ ingest_pc' = "dead"
    /\ UNCHANGED <<history, ingested, ui_pc, nav, topic_overview_state,
                   tree_items, frame, result, pure>>

(* The application between two frames: a key changes what is opened and    *)
(* what is selected.                                                       *)

KeyEvent ==
    /\ ui_pc = "idle"
    /\ opened_topics' \in SUBSET MainTopics
    /\ selected_topic' \in {None} \cup {Some(t) : t \in MainTopics}
    /\ UNCHANGED <<history, lock, poisoned, ingest, ui_pc,
                   topic_overview_state, tree_items, frame, result, pure>>

(* draw *)

\* draw: draw_info_header, then draw_main
DrawInfoHeader ==
    /\ ui_pc = "idle"
    /\ frame' = [EmptyFrame EXCEPT !.header = TRUE]
    /\ ui_pc' = "main"
    /\ UNCHANGED <<history, lock, poisoned, ingest, nav, topic_overview_state,
                   tree_items, result, pure>>

\* draw_main: app.history.lock() succeeds once the mutex is free
LockHistory ==
    /\ ui_pc = "main" /\ lock = "free" /\ ~poisoned
    /\ lock' = "ui" /\ ui_pc' = "locked"
    /\ UNCHANGED <<history, poisoned, ingest, nav, topic_overview_state,
                   tree_items, frame, result, pure>>

\* A lock failure that panics (lock().unwrap()).
LockHistoryFailPanics ==
    /\ ui_pc = "main" /\ lock = "free" /\ poisoned
    /\ ui_pc' = "terminated"
    /\ UNCHANGED <<history, lock, poisoned, ingest, nav, topic_overview_state,
                   tree_items, frame, result, pure>>

\* draw_main: lock() of a poisoned mutex is an Err; map_err(..)? returns it
\* and draw's ? hands it to the caller.
LockHistoryFail ==
    /\ ui_pc = "main" /\ lock = "free" /\ poisoned
    /\ result' = "err" /\ ui_pc' = "returned_err"
    /\ UNCHANGED <<history, lock, poisoned, ingest, nav, topic_overview_state,
                   tree_items, frame, pure>>

\* The render loop on an Err of draw: the frame is dropped, the loop goes on.
RenderLoopOnErr ==
    /\ ui_pc = "returned_err"
    /\ frame' = EmptyFrame
    /\ ui_pc' = "idle"
    /\ UNCHANGED <<history, lock, poisoned, ingest, nav, topic_overview_state,
                   tree_items, result, pure>>

\* Building the tree from a copy and releasing the lock at once.
BuildTreeReleasing ==
    /\ ui_pc = "locked"
    /\ tree_items' = get_tmlp_as_tree(history_to_tmlp(history))
    /\ lock' = "free"
    /\ ui_pc' = "built"
    /\ UNCHANGED <<history, poisoned, ingest, nav, topic_overview_state,
                   frame, result, pure>>

\* draw_main: history_to_tmlp(history.iter()), get_tmlp_as_tree(&topics),
\* through the guard
BuildTree ==
    /\ ui_pc = "locked"
    /\ tree_items' = get_tmlp_as_tree(history_to_tmlp(history))
    /\ ui_pc' = "built"
    /\ UNCHANGED <<history, lock, poisoned, ingest, nav, topic_overview_state,
                   frame, result, pure>>

ResolvedOpened ==
    {unwrap_or_default(get_identifier_of_topic(tree_items, t))
        : t \in opened_topics}

ResolvedSelected ==
    unwrap_or_default(
        IF IsSome(selected_topic)
        THEN get_identifier_of_topic(tree_items, selected_topic[1])
        ELSE None)

\* The ancestors of the selection opened as well, for the frame.
MoveStateOpeningAncestors ==
    /\ ui_pc = "built"
    /\ topic_overview_state' =
           [opened |-> ResolvedOpened \cup
                       (IF IsSome(selected_topic)
                        THEN ProperPrefixes(ResolvedSelected) ELSE {}),
            selected |-> ResolvedSelected]
    /\ ui_pc' = "resolved"
    /\ UNCHANGED <<history, lock, poisoned, ingest, nav, tree_items, frame,
                   result, pure>>

\* A selection that is not found selects the first entry.
MoveStateDefaultFirst ==
    /\ ui_pc = "built"
    /\ topic_overview_state' =
           [opened |-> ResolvedOpened,
            selected |-> IF ResolvedSelected = <<>> THEN <<1>>
                         ELSE ResolvedSelected]
    /\ ui_pc' = "resolved"
    /\ UNCHANGED <<history, lock, poisoned, ingest, nav, tree_items, frame,
                   result, pure>>

\* The ancestors of the selection written back into app.opened_topics.
MoveStateSticky ==
    /\ ui_pc = "built"
    /\ opened_topics' = opened_topics \cup
                        (IF IsSome(selected_topic)
                         THEN ProperPrefixes(selected_topic[1]) ELSE {})
    /\ topic_overview_state' =
           [opened |-> ResolvedOpened, selected |-> ResolvedSelected]
    /\ ui_pc' = "resolved"
    /\ UNCHANGED <<history, lock, poisoned, ingest, selected_topic,
                   tree_items, frame, result, pure>>

\* draw_main: close_all(); open(..) for each of app.opened_topics; select(..)
MoveState ==
    /\ ui_pc = "built"
    /\ topic_overview_state' =
           [opened |-> ResolvedOpened, selected |-> ResolvedSelected]
    /\ ui_pc' = "resolved"
    /\ UNCHANGED <<history, lock, poisoned, ingest, nav, tree_items, frame,
                   result, pure>>

\* draw_main: history.get(selected_topic), and draw_details when it is Some
DrawDetails ==
    /\ ui_pc = "resolved"
    /\ frame' = IF IsSome(selected_topic)
                   /\ selected_topic[1] \in DOMAIN history
                THEN LET topic_history == history[selected_topic[1]]
                         last == topic_history[Len(topic_history)]
                     IN  [frame EXCEPT
                            !.details = Some(draw_details_payload(last))]
                ELSE frame
    /\ ui_pc' = "details"
    /\ UNCHANGED <<history, lock, poisoned, ingest, nav, topic_overview_state,
                   tree_items, result, pure>>

\* draw_overview: the tree widget shows the entries visible under the
\* opened identifiers and highlights the one the selected identifier names.
DrawOverview ==
    /\ ui_pc = "details"
    /\ LET opened == TopicsNamed(tree_items, topic_overview_state.opened)
           shown  == get_visible(opened, tree_items)
           topics == [i \in 1..Len(shown) |-> shown[i].topic]
           sel    == TopicsNamed(tree_items, {topic_overview_state.selected})
                        \cap Range(topics)
       IN  frame' = [frame EXCEPT
                       !.overview = Some(topics),
                       !.highlight = IF sel = {} THEN None
                                     ELSE Some(CHOOSE t \in sel : TRUE)]
    /\ ui_pc' = "overview"
    /\ UNCHANGED <<history, lock, poisoned, ingest, nav, topic_overview_state,
                   tree_items, result, pure>>

\* draw_main returns Ok(()): the guard and the forest are dropped
ReturnOk ==
    /\ ui_pc = "overview"
    /\ lock' = "free"
    /\ tree_items' = <<>>
    /\ frame' = EmptyFrame
    /\ result' = "ok"
    /\ ui_pc' = "idle"
    /\ UNCHANGED <<history, poisoned, ingest, nav, topic_overview_state, pure>>

Next ==
    \/ IngestLock \/ IngestPush \/ IngestPanic
    \/ KeyEvent
    \/ DrawInfoHeader \/ LockHistory \/ LockHistoryFail \/ RenderLoopOnErr
    \/ BuildTree \/ MoveState \/ DrawDetails \/ DrawOverview \/ ReturnOk

Spec == Init /\ [][Next]_vars

-----------------------------------------------------------------------------
(* Claims about the redraw *)

\* The positions of draw_main at which the history guard has been taken and
\* draw_main has not returned.
InDrawMain == {"locked", "built", "resolved", "details", "overview"}

\* C3 as stated: once the data is copied out the lock is released, so tree
\* building is followed by identifier resolution, payload formatting and
\* drawing with the lock not held by the render thread.
LockReleasedBeforeComputing ==
    ui_pc \in {"built", "resolved", "details"} => lock # "ui"

\* C3 amended: the render thread holds the history lock from its acquisition
\* until draw_main returns, through tree building, identifier resolution,
\* payload formatting and drawing; the ingestion thread cannot take the lock
\* meanwhile; outside draw_main the render thread does not hold it.
LockHeldThroughoutDrawMain ==
    /\ ui_pc \in InDrawMain =>
           lock = "ui" /\ ingest_pc # "holding" /\ ~ENABLED IngestLock
    /\ ui_pc \notin InDrawMain => lock # "ui"

\* C3 witness: the render thread is about to format and draw, holding the
\* lock, while the ingestion thread has a message to push and waits.
LockHeldThroughoutDrawMainWitness ==
    /\ ui_pc = "resolved" /\ lock = "ui"
    /\ ingest_pc = "idle" /\ ingested < MaxMsgs /\ ~poisoned

SelectedExists ==
    IsSome(selected_topic) /\ selected_topic[1] \in TopicsOf(tree_items)

Displayed(t) == t \in Range(frame.overview[1])

\* C5 as stated: a selected topic that exists in the forest is in the
\* displayed sequence, whatever the open-set.
SelectedAlwaysDisplayed ==
    (ui_pc = "overview" /\ SelectedExists) => Displayed(selected_topic[1])

\* C5 amended: a selected topic that exists in the forest is resolved to its
\* entry, and it is in the displayed sequence, and highlighted, exactly when
\* every ancestor of it is in the open-set: resolving opens no ancestor.
SelectedDisplayedIffAncestorsOpen ==
    (ui_pc = "overview" /\ SelectedExists) =>
        LET t == selected_topic[1]
        IN  /\ TopicsNamed(tree_items, {topic_overview_state.selected}) = {t}
            /\ Displayed(t) <=> (ProperPrefixes(t) \subseteq opened_topics)
            /\ (frame.highlight = Some(t)) <=> Displayed(t)
            /\ TopicsNamed(tree_items, topic_overview_state.opened)
                   \subseteq opened_topics

\* C5 witness: the selected topic exists, none of its two ancestors is
\* opened, and the frame does not display it.
SelectedDisplayedIffAncestorsOpenWitness ==
    /\ ui_pc = "overview" /\ SelectedExists
    /\ Len(selected_topic[1]) = 3
    /\ ProperPrefixes(selected_topic[1]) \cap opened_topics = {}
    /\ ~Displayed(selected_topic[1])

\* C6: in a redraw, a selected topic that is not in the forest selects no
\* entry and highlights nothing; the opened entries are those of the opened
\* topics that are in the forest and no other; and draw returns an Err only
\* when the lock failed.
AbsentTopicsSelectAndOpenNothing ==
    /\ ui_pc \in {"resolved", "details", "overview"} =>
           /\ (IsSome(selected_topic) /\ ~SelectedExists) =>
                  TopicsNamed(tree_items, {topic_overview_state.selected}) = {}
           /\ TopicsNamed(tree_items, topic_overview_state.opened)
                  = opened_topics \cap TopicsOf(tree_items)
    /\ (ui_pc = "overview" /\ IsSome(selected_topic) /\ ~SelectedExists) =>
           frame.highlight = None
    /\ (ui_pc = "overview" /\ ~SelectedExists) =>
           frame.overview[1] =
               LET shown == get_visible(opened_topics, tree_items)
               IN  [i \in 1..Len(shown) |-> shown[i].topic]
    /\ result = "err" => poisoned

\* C6 witness: the forest is not empty, the selected topic and one opened
\* topic are not in it, another opened topic is, and the frame is drawn.
AbsentTopicsSelectAndOpenNothingWitness ==
    /\ ui_pc = "overview" /\ tree_items # <<>>
    /\ IsSome(selected_topic) /\ ~SelectedExists
    /\ opened_topics \ TopicsOf(tree_items) # {}
    /\ opened_topics \cap TopicsOf(tree_items) # {}

\* C10: no step of a redraw, successful or failed, changes
\* app.opened_topics or app.selected_topic; a failed redraw leaves
\* topic_overview_state as it was; a successful one leaves in it the
\* identifiers of the opened topics and of the selected topic and no other.
RedrawKeepsNavigationState ==
    /\ [][(ui_pc # "idle" \/ ui_pc' # "idle") =>
              /\ opened_topics' = opened_topics
              /\ selected_topic' = selected_topic]_vars
    /\ [][ui_pc' \in {"main", "returned_err"} =>
              topic_overview_state' = topic_overview_state]_vars
    /\ [](ui_pc \in {"resolved", "details", "overview"} =>
              /\ topic_overview_state.opened \ {<<>>} =
                     {n.id : n \in {x \in Nodes(tree_items) :
                                        x.entry.topic \in opened_topics}}
              /\ topic_overview_state.selected \in
                     {<<>>} \cup {n.id : n \in {x \in Nodes(tree_items) :
                                        Some(x.entry.topic) = selected_topic}})

\* C10 witness: a redraw has returned Ok with a topic selected that is in
\* the history and whose ancestors are still not among the opened topics.
RedrawKeepsNavigationStateWitness ==
    /\ ui_pc = "idle" /\ result = "ok"
    /\ IsSome(selected_topic) /\ selected_topic[1] \in DOMAIN history
    /\ Len(selected_topic[1]) > 1
    /\ ProperPrefixes(selected_topic[1]) \cap opened_topics = {}

=============================================================================
